---- MODULE Spec2Model ----
(***************************************************************************)
(* The failover state model of the cluster controller                      *)
(* (state/state_model.go): the four node states, the transition table      *)
(* registered by init(), the auto-failover constraints and the failover    *)
(* handlers, driven by the FSM engine's Advance.                           *)
(***************************************************************************)
EXTENDS Integers, Sequences, FiniteSets, TLC

(* ---------------------------- bounds ---------------------------------- *)

\* largest number of key ranges a node owns
MaxRanges == 1
\* largest number of follow-up AdvanceFSM goroutines pending per node
MaxPending == 1

\* the nodes of the cluster, in the order the cluster lists them
NodeList == <<"n1", "n2">>
Nodes == {NodeList[k] : k \in DOMAIN NodeList}
NoNode == "nil"
\* replica sets a node can be found in; NoSet: FindReplicaSetByNode gives nil
ReplicaSets == {"rs1"}
NoSet == "nil"
Regions == {"bj", "nj"}

(* ------------------------ states and inputs --------------------------- *)

StateRunning == "RUNNING"
StateWaitFailoverBegin == "WAIT_FAILOVER_BEGIN"
StateWaitFailoverEnd == "WAIT_FAILOVER_END"
StateOffline == "OFFLINE"

States == {StateRunning, StateWaitFailoverBegin, StateWaitFailoverEnd, StateOffline}

T == "T"
F == "F"
FAIL == "FAIL"
FINE == "FINE"
M == "M"
S == "S"
ANY == "ANY"
CMD_NONE == "CMD_NONE"
CMD_FAILOVER_BEGIN_SIGNAL == "CMD_FAILOVER_BEGIN_SIGNAL"
CMD_FAILOVER_END_SIGNAL == "CMD_FAILOVER_END_SIGNAL"

Commands == {CMD_NONE, CMD_FAILOVER_BEGIN_SIGNAL, CMD_FAILOVER_END_SIGNAL}

\* Input{Read, Write, Health, Role, Command}
Input(r, w, h, role, cmd) == [r |-> r, w |-> w, h |-> h, role |-> role, cmd |-> cmd]

\* the fully specified inputs a node can be advanced with
Inputs == [r : {T, F}, w : {T, F}, h : {FAIL, FINE}, role : {M, S}, cmd : Commands]

VARIABLES
    rs,            \* node -> replica set of the node, or NoSet
    region,        \* node -> node.Region
    fail,          \* node -> node.Fail
    ranges,        \* node -> len(node.Ranges)
    autoFailover,  \* meta.AutoFailover()
    state,         \* node -> current state of the node's state machine
    firing,        \* node -> transition of the firing in progress, or "idle"
    followup,      \* node -> pending `go ns.AdvanceFSM(cs, CMD_FAILOVER_END_SIGNAL)`
    last           \* the most recent firing: what it saw and what it did

vars == <<rs, region, fail, ranges, autoFailover, state, firing, followup, last>>
topology == <<rs, region, fail, ranges>>

(* ------------------------ transition table ---------------------------- *)

\* fsm.Transition{From, To, Input, Priority, Constraint, Apply}; Constraint and
\* Apply name the function registered, "nil" when none is
Transition(name, from, to, input, priority, constraint, apply) ==
    [name |-> name, From |-> from, To |-> to, Input |-> input,
     Priority |-> priority, Constraint |-> constraint, Apply |-> apply]

\* a0 registered for a healthy node only
a0_FineOnly ==
    Transition("a0", StateRunning, StateOffline,
               Input(F, F, FINE, ANY, ANY), 0, "nil", "nil")

a0 ==
    Transition("a0", StateRunning, StateOffline,
               Input(F, F, ANY, ANY, ANY), 0, "nil", "nil")

\* a1 registered without the health field
a1_AnyHealth ==
    Transition("a1", StateRunning, StateWaitFailoverBegin,
               Input(T, ANY, ANY, ANY, ANY), 0, "nil", "nil")

a1 ==
    Transition("a1", StateRunning, StateWaitFailoverBegin,
               Input(T, ANY, FAIL, ANY, ANY), 0, "nil", "nil")

\* a2 registered with the target of a0
a2_ToOffline ==
    Transition("a2", StateRunning, StateOffline,
               Input(ANY, T, FAIL, ANY, ANY), 0, "nil", "nil")

a2 ==
    Transition("a2", StateRunning, StateWaitFailoverBegin,
               Input(ANY, T, FAIL, ANY, ANY), 0, "nil", "nil")

a3 ==
    Transition("a3", StateRunning, StateWaitFailoverEnd,
               Input(T, ANY, FAIL, S, ANY), 1, "SlaveAutoFailoverConstraint", "SlaveFailoverHandler")

a4 ==
    Transition("a4", StateRunning, StateWaitFailoverEnd,
               Input(T, T, FAIL, M, ANY), 1, "MasterAutoFailoverConstraint", "MasterFailoverHandler")

b0 ==
    Transition("b0", StateWaitFailoverBegin, StateRunning,
               Input(ANY, ANY, FINE, ANY, ANY), 0, "nil", "nil")

b1 ==
    Transition("b1", StateWaitFailoverBegin, StateWaitFailoverEnd,
               Input(ANY, ANY, FAIL, M, ANY), 0, "MasterAutoFailoverConstraint", "MasterFailoverHandler")

b2 ==
    Transition("b2", StateWaitFailoverBegin, StateWaitFailoverEnd,
               Input(ANY, ANY, FAIL, S, ANY), 0, "SlaveAutoFailoverConstraint", "SlaveFailoverHandler")

\* b3 registered with the priority of b2
b3_Priority0 ==
    Transition("b3", StateWaitFailoverBegin, StateOffline,
               Input(F, F, FAIL, S, ANY), 0, "nil", "nil")

b3 ==
    Transition("b3", StateWaitFailoverBegin, StateOffline,
               Input(F, F, FAIL, S, ANY), 1, "nil", "nil")

\* c0 registered for the begin signal
c0_BeginSignal ==
    Transition("c0", StateWaitFailoverEnd, StateOffline,
               Input(ANY, ANY, ANY, ANY, CMD_FAILOVER_BEGIN_SIGNAL), 0, "nil", "nil")

c0 ==
    Transition("c0", StateWaitFailoverEnd, StateOffline,
               Input(ANY, ANY, ANY, ANY, CMD_FAILOVER_END_SIGNAL), 0, "nil", "nil")

\* c1 registered without the role field
c1_AnyRole ==
    Transition("c1", StateWaitFailoverEnd, StateOffline,
               Input(F, F, FAIL, ANY, ANY), 1, "nil", "nil")

c1 ==
    Transition("c1", StateWaitFailoverEnd, StateOffline,
               Input(F, F, FAIL, S, ANY), 1, "nil", "nil")

d0 ==
    Transition("d0", StateOffline, StateRunning,
               Input(T, ANY, ANY, ANY, ANY), 0, "nil", "nil")

d1 ==
    Transition("d1", StateOffline, StateRunning,
               Input(ANY, T, ANY, ANY, ANY), 0, "nil", "nil")

\* d2 registered with the target of the failover transitions
d2_ToWaitFailoverEnd ==
    Transition("d2", StateOffline, StateWaitFailoverEnd,
               Input(F, F, FAIL, M, ANY), 0, "d2Constraint", "nil")

d2 ==
    Transition("d2", StateOffline, StateWaitFailoverBegin,
               Input(F, F, FAIL, M, ANY), 0, "d2Constraint", "nil")

\* the transitions in the order init() registers them
Table == <<a0, a1, a2, a3, a4, b0, b1, b2, b3, c0, c1, d0, d1, d2>>

(* ----------------------- cluster state queries ------------------------ *)

\* StateContext{Input, ClusterState, NodeState}; the ClusterState is the
\* variables of the module
StateContext(input, n) == [Input |-> input, NodeState |-> n]

\* cs.FindReplicaSetByNode(id): the replica set holding the node, or nil
FindReplicaSetByNode(n) == rs[n]

\* rs.RegionNodes(region): the nodes of the replica set in the region,
\* the node asking included
RegionNodes(r, reg) == {m \in Nodes : rs[m] = r /\ region[m] = reg}

\* cs.FindNodeState(id).CurrentState()
CurrentState(m) == state[m]

(* ---------------------------- constraints ----------------------------- *)

\* the constraint without the check that the region holds two nodes
SlaveAutoFailoverConstraint_NoRegionCount(ctx) ==
    LET ns == ctx.NodeState
        r == FindReplicaSetByNode(ns)
        localRegionNodes == RegionNodes(r, region[ns])
    IN  IF r = NoSet THEN FALSE
        ELSE \A node \in localRegionNodes :
                 \/ node = ns
                 \/ ~(fail[node] \/ CurrentState(node) # StateRunning)

\* the constraint without the `continue` that skips the node itself
SlaveAutoFailoverConstraint_CountsSelf(ctx) ==
    LET ns == ctx.NodeState
        r == FindReplicaSetByNode(ns)
        localRegionNodes == RegionNodes(r, region[ns])
    IN  IF r = NoSet THEN FALSE
        ELSE IF Cardinality(localRegionNodes) < 2 THEN FALSE
        ELSE \A node \in localRegionNodes :
                 ~(fail[node] \/ CurrentState(node) # StateRunning)

SlaveAutoFailoverConstraint(ctx) ==
    LET ns == ctx.NodeState
        r == FindReplicaSetByNode(ns)
        localRegionNodes == RegionNodes(r, region[ns])
    IN  IF r = NoSet THEN FALSE
        ELSE IF Cardinality(localRegionNodes) < 2 THEN FALSE
        ELSE \A node \in localRegionNodes :
                 \/ node = ns
                 \/ ~(fail[node] \/ CurrentState(node) # StateRunning)

\* the constraint without the check of meta.AutoFailover()
MasterAutoFailoverConstraint_IgnoresFlag(ctx) ==
    LET ns == ctx.NodeState
        r == FindReplicaSetByNode(ns)
        localRegionNodes == RegionNodes(r, region[ns])
    IN  IF r = NoSet THEN FALSE
        ELSE IF Cardinality(localRegionNodes) < 2 THEN FALSE
        ELSE \A node \in localRegionNodes :
                 \/ node = ns
                 \/ ~(fail[node] \/ CurrentState(node) # StateRunning)

\* the constraint that rejects whenever meta.AutoFailover() is off, whatever
\* the command
MasterAutoFailoverConstraint_NoOverride(ctx) ==
    LET ns == ctx.NodeState
        r == FindReplicaSetByNode(ns)
        localRegionNodes == RegionNodes(r, region[ns])
    IN  IF ~autoFailover THEN FALSE
        ELSE IF r = NoSet THEN FALSE
        ELSE IF Cardinality(localRegionNodes) < 2 THEN FALSE
        ELSE \A node \in localRegionNodes :
                 \/ node = ns
                 \/ ~(fail[node] \/ CurrentState(node) # StateRunning)

MasterAutoFailoverConstraint(ctx) ==
    LET ns == ctx.NodeState
        r == FindReplicaSetByNode(ns)
        localRegionNodes == RegionNodes(r, region[ns])
    IN  IF ~autoFailover /\ ctx.Input.cmd # CMD_FAILOVER_BEGIN_SIGNAL THEN FALSE
        ELSE IF r = NoSet THEN FALSE
        ELSE IF Cardinality(localRegionNodes) < 2 THEN FALSE
        ELSE \A node \in localRegionNodes :
                 \/ node = ns
                 \/ ~(fail[node] \/ CurrentState(node) # StateRunning)

\* the constraint of d2 that lets every node through
d2Constraint_AlwaysTrue(ctx) == TRUE

\* the constraint of transition d2: the failed master was not handled before
d2Constraint(ctx) ==
    LET ns == ctx.NodeState
    IN  IF fail[ns] /\ ranges[ns] = 0 THEN FALSE ELSE TRUE

(* ----------------------------- handlers ------------------------------- *)

\* what a handler did: `go ns.AdvanceFSM(cs, CMD_FAILOVER_END_SIGNAL)`
\* statements run, `go cs.RunFailoverTask` statements run, and calls of
\* ns.AdvanceFSM made in the handler itself; sent: the addresses
\* redis.DisableRead was called with, in order, replies: whether each call
\* returned without error; panic: the handler did not return
Started(signals, tasks, inline) ==
    [signals |-> signals, tasks |-> tasks, inline |-> inline,
     sent |-> <<>>, replies |-> <<>>, panic |-> FALSE]

\* the handler that advances the node itself instead of starting a goroutine
MasterFailoverHandler_Inline(ctx, err) ==
    IF err THEN Started(0, 0, 1) ELSE Started(0, 1, 0)

\* the handler that drops the failover end signal
MasterFailoverHandler_NoSignal(ctx, err) ==
    IF err THEN Started(0, 0, 0) ELSE Started(0, 1, 0)

\* err: cs.MaxReploffSlibing found no sibling to promote
MasterFailoverHandler(ctx, err) ==
    IF err THEN Started(1, 0, 0) ELSE Started(0, 1, 0)

\* the network as the handler meets it: order, the nodes as
\* cs.AllNodeStates() lists them, and ok, the nodes whose address answers
\* redis.DisableRead without error
Network(order, ok) == [order |-> order, ok |-> ok]

\* the loop without the break: every address gets a request
RECURSIVE DisableReadLoop_NoBreak(_, _)
DisableReadLoop_NoBreak(order, ok) ==
    IF order = <<>> THEN <<>>
    ELSE <<Head(order)>> \o DisableReadLoop_NoBreak(Tail(order), ok)

\* the loop of SlaveFailoverHandler: the addresses it calls
\* redis.DisableRead with, up to the first that answers without error
RECURSIVE DisableReadLoop(_, _)
DisableReadLoop(order, ok) ==
    IF order = <<>> THEN <<>>
    ELSE IF Head(order) \in ok THEN <<Head(order)>>
    ELSE <<Head(order)>> \o DisableReadLoop(Tail(order), ok)

\* the handler that ends the process when no address answered
SlaveFailoverHandler_FatalOnFailure(ctx, net) ==
    LET sent == DisableReadLoop(net.order, net.ok)
    IN  [Started(0, 0, 0) EXCEPT
            !.sent = sent,
            !.replies = [k \in DOMAIN sent |-> sent[k] \in net.ok],
            !.panic = \A k \in DOMAIN sent : sent[k] \notin net.ok]

SlaveFailoverHandler(ctx, net) ==
    LET sent == DisableReadLoop(net.order, net.ok)
    IN  [Started(0, 0, 0) EXCEPT
            !.sent = sent,
            !.replies = [k \in DOMAIN sent |-> sent[k] \in net.ok]]

(* ---------------------------- FSM engine ------------------------------ *)

\* a transition's Input matches the input: every field is ANY or equal
FieldEq(pat, val) == pat = ANY \/ pat = val

InputEq(pat, in) ==
    /\ FieldEq(pat.r, in.r)
    /\ FieldEq(pat.w, in.w)
    /\ FieldEq(pat.h, in.h)
    /\ FieldEq(pat.role, in.role)
    /\ FieldEq(pat.cmd, in.cmd)

\* a transition without Constraint passes
ConstraintHolds(t, ctx) ==
    CASE t.Constraint = "nil" -> TRUE
      [] t.Constraint = "SlaveAutoFailoverConstraint" -> SlaveAutoFailoverConstraint(ctx)
      [] t.Constraint = "MasterAutoFailoverConstraint" -> MasterAutoFailoverConstraint(ctx)
      [] t.Constraint = "d2Constraint" -> d2Constraint(ctx)

\* the registered transitions that leave the node's state, match the input
\* and pass their constraint, by their place in the table
Enabled(ctx) ==
    {i \in 1..Len(Table) :
        /\ Table[i].From = CurrentState(ctx.NodeState)
        /\ InputEq(Table[i].Input, ctx.Input)
        /\ ConstraintHolds(Table[i], ctx)}

\* the transition that fires among the enabled ones: the highest priority,
\* the first registered among equals; 0 when none is enabled
Select(en) ==
    IF en = {} THEN 0
    ELSE CHOOSE i \in en :
             \A j \in en : \/ Table[j].Priority < Table[i].Priority
                           \/ Table[j].Priority = Table[i].Priority /\ i <= j

\* Apply of the transition, nothing started when it has none
Apply(t, ctx, err, net) ==
    CASE t.Apply = "nil" -> Started(0, 0, 0)
      [] t.Apply = "SlaveFailoverHandler" -> SlaveFailoverHandler(ctx, net)
      [] t.Apply = "MasterFailoverHandler" -> MasterFailoverHandler(ctx, err)

NoTransition == "none"

\* the outcomes of cs.MaxReploffSlibing in the handler of transition i: an
\* error when no sibling can be promoted
Errors(i) ==
    IF i # 0 /\ Table[i].Apply = "MasterFailoverHandler" THEN BOOLEAN ELSE {FALSE}

\* the orders cs.AllNodeStates() can list the nodes in
Orders ==
    {o \in [DOMAIN NodeList -> Nodes] : \A j, k \in DOMAIN NodeList : o[j] = o[k] => j = k}

NoNetwork == Network(<<>>, {})

\* the networks the handler of transition i can meet
Networks(i) ==
    IF i # 0 /\ Table[i].Apply = "SlaveFailoverHandler"
    THEN {Network(o, ok) : o \in Orders, ok \in SUBSET Nodes}
    ELSE {NoNetwork}

\* one firing of the engine for ctx, with the transitions en enabled and
\* transition i chosen: the state the node ends in and what its handler did;
\* a handler that does not return leaves the node where it was
Firing(ctx, en, i, err, net) ==
    LET from == CurrentState(ctx.NodeState)
    IN  IF i = 0
        THEN [node |-> ctx.NodeState, input |-> ctx.Input, auto |-> autoFailover,
              enabled |-> {}, from |-> from, tr |-> NoTransition, to |-> from,
              apply |-> "nil", err |-> FALSE, signals |-> 0, tasks |-> 0,
              inline |-> 0, sent |-> <<>>, replies |-> <<>>, escaped |-> FALSE]
        ELSE LET t == Table[i]
                 started == Apply(t, ctx, err, net)
             IN  [node |-> ctx.NodeState, input |-> ctx.Input, auto |-> autoFailover,
                  enabled |-> {Table[j].name : j \in en},
                  from |-> from, tr |-> t.name,
                  to |-> IF started.panic THEN from ELSE t.To, apply |-> t.Apply,
                  err |-> err, signals |-> started.signals, tasks |-> started.tasks,
                  inline |-> started.inline, sent |-> started.sent,
                  replies |-> started.replies, escaped |-> started.panic]

NoFiring ==
    [node |-> NoNode, input |-> Input(F, F, FINE, S, CMD_NONE), auto |-> FALSE,
     enabled |-> {}, from |-> StateRunning, tr |-> NoTransition, to |-> StateRunning,
     apply |-> "nil", err |-> FALSE, signals |-> 0, tasks |-> 0, inline |-> 0,
     sent |-> <<>>, replies |-> <<>>, escaped |-> FALSE]

\* who called AdvanceFSM: the monitor or an operator, or the goroutine of
\* MasterFailoverHandler
Caller == "caller"
Goroutine == "goroutine"

\* the firing that holds the lock of a node's state machine; blocked: its
\* handler called AdvanceFSM of the node and waits for that lock
Idle ==
    [busy |-> FALSE, blocked |-> FALSE, by |-> Caller, to |-> StateRunning,
     apply |-> "nil", err |-> FALSE, signals |-> 0, tasks |-> 0]

InFlight(f, by) ==
    [busy |-> TRUE, blocked |-> f.inline > 0, by |-> by, to |-> f.to,
     apply |-> f.apply, err |-> f.err, signals |-> f.signals, tasks |-> f.tasks]

\* the follow-up goroutines of node n once a call by `by` has run the firing
Pending(n, f, by) ==
    followup[n] - (IF by = Goroutine THEN 1 ELSE 0) + f.signals

(* ------------------------------ actions ------------------------------- *)

\* region names are interchangeable and the region of a node outside every
\* replica set is never read: such a node, and the first node that lies in a
\* replica set, are in bj
Canonical(sets, reg) ==
    \A k \in DOMAIN NodeList :
        (sets[NodeList[k]] = NoSet \/ \A j \in 1..(k - 1) : sets[NodeList[j]] = NoSet)
            => reg[NodeList[k]] = "bj"

Init ==
    /\ rs \in [Nodes -> ReplicaSets \cup {NoSet}]
    /\ region \in {reg \in [Nodes -> Regions] : Canonical(rs, reg)}
    /\ fail \in [Nodes -> BOOLEAN]
    /\ ranges \in [Nodes -> 0..MaxRanges]
    /\ autoFailover \in BOOLEAN
    /\ state = [n \in Nodes |-> StateRunning]
    /\ firing = [n \in Nodes |-> Idle]
    /\ followup = [n \in Nodes |-> 0]
    /\ last = NoFiring

\* ns.AdvanceFSM for node n with the input, as one step: the engine picks
\* the transition, runs its handler and moves the node; a handler that
\* calls AdvanceFSM of the node never returns
AdvanceFSM(n, input, by) ==
    /\ firing[n] = Idle
    /\ LET ctx == StateContext(input, n)
           en == Enabled(ctx)
           i == Select(en)
       IN
       \E err \in Errors(i), net \in Networks(i) :
        LET f == Firing(ctx, en, i, err, net)
        IN
        /\ Pending(n, f, by) <= MaxPending
        /\ IF f.inline > 0
           THEN /\ firing' = [firing EXCEPT ![n] = InFlight(f, by)]
                /\ state' = state
           ELSE /\ firing' = firing
                /\ state' = [state EXCEPT ![n] = f.to]
        /\ followup' = [followup EXCEPT ![n] = Pending(n, f, by)]
        /\ last' = f
        /\ UNCHANGED <<topology, autoFailover>>

\* the monitor or an operator advances node n; calls are taken one at a time
Advance(n) ==
    /\ last = NoFiring
    /\ \E input \in Inputs : AdvanceFSM(n, input, Caller)

\* the goroutine started by MasterFailoverHandler advances node n with the
\* failover end signal
FollowUp(n) ==
    /\ last = NoFiring
    /\ followup[n] > 0
    /\ \E input \in Inputs :
           /\ input.cmd = CMD_FAILOVER_END_SIGNAL
           /\ AdvanceFSM(n, input, Goroutine)

\* the call returns to its caller
Return ==
    /\ last # NoFiring
    /\ last' = NoFiring
    /\ UNCHANGED <<topology, autoFailover, state, firing, followup>>

SetAutoFailover ==
    /\ last = NoFiring
    /\ autoFailover' = ~autoFailover
    /\ UNCHANGED <<topology, state, firing, followup, last>>

Next ==
    \/ \E n \in Nodes : Advance(n)
    \/ \E n \in Nodes : FollowUp(n)
    \/ Return
    \/ SetAutoFailover

Spec == Init /\ [][Next]_vars

(* ------------- firings of different nodes side by side ---------------- *)

\* every node has a sibling in its region; the constraints can pass
LockInit ==
    /\ rs = [n \in Nodes |-> "rs1"]
    /\ region = [n \in Nodes |-> "bj"]
    /\ fail \in [Nodes -> BOOLEAN]
    /\ ranges = [n \in Nodes |-> MaxRanges]
    /\ autoFailover \in BOOLEAN
    /\ state = [n \in Nodes |-> StateRunning]
    /\ firing = [n \in Nodes |-> Idle]
    /\ followup = [n \in Nodes |-> 0]
    /\ last = NoFiring

\* the firings the engine can make for node n on one of the inputs
Firings(n, inputs) ==
    UNION {LET ctx == StateContext(input, n)
               en == Enabled(ctx)
               i == Select(en)
           IN  {Firing(ctx, en, i, err, net) : err \in Errors(i), net \in Networks(i)} :
           input \in inputs}

\* ns.AdvanceFSM up to the point where the node is moved: the call takes
\* the lock of the node's state machine, the engine picks the transition and
\* runs its handler
Begin(n, inputs, by) ==
    /\ firing[n] = Idle
    /\ \E g \in {InFlight(f, by) : f \in Firings(n, inputs)} :
           /\ Pending(n, g, by) <= MaxPending
           /\ firing' = [firing EXCEPT ![n] = g]
           /\ followup' = [followup EXCEPT ![n] = Pending(n, g, by)]
    /\ UNCHANGED <<topology, autoFailover, state, last>>

\* the monitor or an operator advances node n
BeginAdvance(n) == Begin(n, Inputs, Caller)

\* the goroutine started by MasterFailoverHandler gets the lock of node n
BeginFollowUp(n) ==
    /\ followup[n] > 0
    /\ firing[n] = Idle
    /\ \E r \in {T, F}, w \in {T, F}, h \in {FAIL, FINE}, role \in {M, S} :
           Begin(n, {Input(r, w, h, role, CMD_FAILOVER_END_SIGNAL)}, Goroutine)

\* the rest of ns.AdvanceFSM: the node is moved and the lock released
Commit(n) ==
    /\ firing[n].busy
    /\ ~firing[n].blocked
    /\ state' = [state EXCEPT ![n] = firing[n].to]
    /\ firing' = [firing EXCEPT ![n] = Idle]
    /\ UNCHANGED <<topology, autoFailover, followup, last>>

ToggleAutoFailover ==
    /\ autoFailover' = ~autoFailover
    /\ UNCHANGED <<topology, state, firing, followup, last>>

LockNext ==
    \/ \E n \in Nodes : BeginAdvance(n)
    \/ \E n \in Nodes : BeginFollowUp(n)
    \/ \E n \in Nodes : Commit(n)
    \/ ToggleAutoFailover

LockSpec == LockInit /\ [][LockNext]_vars

\* no node is marked failed
FairInit == LockInit /\ \A n \in Nodes : ~fail[n]

\* a firing that holds the lock ends; a goroutine waiting for the lock gets
\* it at some point
FairSpec ==
    /\ FairInit /\ [][LockNext]_vars
    /\ \A n \in Nodes : WF_vars(Commit(n))
    /\ \A n \in Nodes : SF_vars(BeginFollowUp(n))

(* ------------------------------ claims -------------------------------- *)

\* a firing has been recorded for a node
Fired == last.node # NoNode

\* the transition registered under the name
Registered(name) == CHOOSE i \in 1..Len(Table) : Table[i].name = name

\* the other nodes of n's replica set that lie in n's region
Siblings(n) ==
    IF rs[n] = NoSet THEN {}
    ELSE {m \in Nodes \ {n} : rs[m] = rs[n] /\ region[m] = region[n]}

\* every sibling of n is not failed and RUNNING
SiblingsHealthy(n) ==
    \A m \in Siblings(n) : ~fail[m] /\ state[m] = StateRunning

\* n has a replica set and at least one sibling in its region
HasSibling(n) == rs[n] # NoSet /\ Siblings(n) # {}

ScenarioC == Input(T, T, FAIL, M, CMD_NONE)
ScenarioD == Input(T, T, FAIL, M, CMD_FAILOVER_BEGIN_SIGNAL)

\* C1 as stated: a RUNNING node advanced with (T,T,FAIL,MASTER,NONE) while
\* auto-failover is disabled stays in RUNNING.
C1_StaysRunning ==
    (Fired /\ last.from = StateRunning /\ last.input = ScenarioC /\ ~last.auto)
        => state[last.node] = StateRunning

\* C1 amended: a RUNNING node advanced with (T,T,FAIL,MASTER,NONE) while
\* auto-failover is disabled moves to WAIT_FAILOVER_BEGIN by the unguarded
\* transition a1, for every topology; the master constraint rejects a4, so
\* the node does not enter WAIT_FAILOVER_END and no handler runs.
C1_MovesToWaitFailoverBegin ==
    (Fired /\ last.from = StateRunning /\ last.input = ScenarioC /\ ~last.auto)
        => /\ state[last.node] = StateWaitFailoverBegin
           /\ last.tr = "a1"
           /\ "a4" \notin last.enabled
           /\ last.apply = "nil"
           /\ last.signals = 0 /\ last.tasks = 0

\* C1 witness: the scenario fired for a node whose topology would let the
\* master constraint pass were the flag on.
C1_Witness ==
    /\ Fired /\ last.from = StateRunning /\ last.input = ScenarioC /\ ~last.auto
    /\ HasSibling(last.node) /\ SiblingsHealthy(last.node)
    /\ state[last.node] = StateWaitFailoverBegin

\* C2: a firing with a MASTER input enters WAIT_FAILOVER_END, and the
\* promote-replica handler runs, only if at that firing auto-failover was
\* enabled or the command was the failover begin signal.
C2_MasterFailoverNeedsFlagOrSignal ==
    (Fired /\ \/ /\ last.input.role = M
                 /\ last.from \in {StateRunning, StateWaitFailoverBegin}
                 /\ last.to = StateWaitFailoverEnd
              \/ last.apply = "MasterFailoverHandler")
        => \/ last.auto
           \/ last.input.cmd = CMD_FAILOVER_BEGIN_SIGNAL

\* C2 witness: with the flag off, the begin signal took a master from
\* WAIT_FAILOVER_BEGIN to WAIT_FAILOVER_END.
C2_Witness ==
    /\ Fired /\ last.tr = "b1" /\ ~last.auto
    /\ last.input.cmd = CMD_FAILOVER_BEGIN_SIGNAL
    /\ last.apply = "MasterFailoverHandler"
    /\ state[last.node] = StateWaitFailoverEnd

\* C3: with auto-failover disabled, a RUNNING node advanced with
\* (T,T,FAIL,MASTER,FAILOVER_BEGIN_SIGNAL) that has a region sibling, all
\* siblings not failed and RUNNING, moves to WAIT_FAILOVER_END and the
\* promote-replica handler runs once (it starts exactly one goroutine).
C3_ManualOverride ==
    (/\ Fired /\ last.from = StateRunning /\ last.input = ScenarioD /\ ~last.auto
     /\ HasSibling(last.node) /\ SiblingsHealthy(last.node))
        => /\ state[last.node] = StateWaitFailoverEnd
           /\ last.tr = "a4"
           /\ last.apply = "MasterFailoverHandler"
           /\ last.signals + last.tasks = 1

\* C3 witness: the override fired.
C3_Witness ==
    /\ Fired /\ last.from = StateRunning /\ last.input = ScenarioD /\ ~last.auto
    /\ HasSibling(last.node) /\ SiblingsHealthy(last.node)
    /\ state[last.node] = StateWaitFailoverEnd

\* C4: when transitions are enabled the one that fires has the highest
\* priority among them; a RUNNING node with a3 or a4 enabled goes to
\* WAIT_FAILOVER_END, not WAIT_FAILOVER_BEGIN; a node in WAIT_FAILOVER_BEGIN
\* with input (F,F,FAIL,SLAVE,*) goes to OFFLINE and ban-read-peer does not
\* run, also when the slave constraint holds.
C4_PriorityLaw ==
    Fired =>
        /\ last.enabled # {} => last.tr \in last.enabled
        /\ \A name \in last.enabled :
               Table[Registered(name)].Priority <= Table[Registered(last.tr)].Priority
        /\ (last.from = StateRunning /\ last.enabled \cap {"a3", "a4"} # {})
               => state[last.node] = StateWaitFailoverEnd
        /\ (/\ last.from = StateWaitFailoverBegin
            /\ last.input.r = F /\ last.input.w = F
            /\ last.input.h = FAIL /\ last.input.role = S)
               => /\ state[last.node] = StateOffline
                  /\ last.apply = "nil"

\* C4 witness: b3 fired over an enabled b2.
C4_Witness ==
    /\ Fired /\ last.tr = "b3" /\ "b2" \in last.enabled
    /\ state[last.node] = StateOffline

\* C5: an OFFLINE node that is marked failed and owns no key range does not
\* move to WAIT_FAILOVER_BEGIN, whatever the input; and on an input
\* (F,F,FAIL,MASTER,*) an OFFLINE node moves to WAIT_FAILOVER_BEGIN exactly
\* when it is not both failed and without key ranges.
C5_RetriggerSuppression ==
    (Fired /\ last.from = StateOffline) =>
        /\ (fail[last.node] /\ ranges[last.node] = 0)
               => state[last.node] # StateWaitFailoverBegin
        /\ (/\ last.input.r = F /\ last.input.w = F
            /\ last.input.h = FAIL /\ last.input.role = M)
               => (state[last.node] = StateWaitFailoverBegin
                       <=> ~(fail[last.node] /\ ranges[last.node] = 0))

\* C5 witness: the constraint of d2 kept a demoted master OFFLINE.
C5_Witness ==
    /\ Fired /\ last.from = StateOffline
    /\ last.input = Input(F, F, FAIL, M, CMD_NONE)
    /\ fail[last.node] /\ ranges[last.node] = 0
    /\ last.tr = NoTransition
    /\ state[last.node] = StateOffline

\* C6: for a node without replica set, or with no other node of its replica
\* set in its region, both constraints are false for every input, flag and
\* state of the other nodes, and the node is never in WAIT_FAILOVER_END.
C6_GuardConservatism ==
    \A n \in Nodes :
        ~HasSibling(n) =>
            /\ state[n] # StateWaitFailoverEnd
            /\ last = NoFiring =>
                   \A input \in Inputs :
                       /\ ~SlaveAutoFailoverConstraint(StateContext(input, n))
                       /\ ~MasterAutoFailoverConstraint(StateContext(input, n))

\* C6 witness: a failed slave alone in its region, in a replica set, was
\* advanced with auto-failover on and went to WAIT_FAILOVER_BEGIN.
C6_Witness ==
    /\ Fired /\ rs[last.node] # NoSet /\ ~HasSibling(last.node)
    /\ last.auto /\ last.from = StateRunning
    /\ last.input = Input(T, T, FAIL, S, CMD_NONE)
    /\ state[last.node] = StateWaitFailoverBegin

\* C7: both constraints are false when another node of the replica set in
\* the region is failed or not RUNNING; with a sibling and all siblings
\* healthy the slave constraint holds, and the master constraint holds
\* exactly when the flag or the begin signal allows it, whatever the node's
\* own failed flag and state.
C7_SiblingFault ==
    last = NoFiring =>
        \A n \in Nodes, input \in Inputs :
            LET ctx == StateContext(input, n)
            IN  /\ ~SiblingsHealthy(n) =>
                       /\ ~SlaveAutoFailoverConstraint(ctx)
                       /\ ~MasterAutoFailoverConstraint(ctx)
                /\ (HasSibling(n) /\ SiblingsHealthy(n)) =>
                       /\ SlaveAutoFailoverConstraint(ctx)
                       /\ MasterAutoFailoverConstraint(ctx)
                              <=> (autoFailover \/ input.cmd = CMD_FAILOVER_BEGIN_SIGNAL)

\* C7 witness: a node that is itself failed and in WAIT_FAILOVER_BEGIN passed
\* the slave constraint, next to a state where a sibling is not RUNNING.
C7_Witness ==
    /\ Fired /\ last.tr = "b2" /\ fail[last.node]
    /\ \E n \in Nodes : Siblings(n) # {} /\ ~SiblingsHealthy(n)

AllowedEdges ==
    {<<StateRunning, StateOffline>>, <<StateRunning, StateWaitFailoverBegin>>,
     <<StateRunning, StateWaitFailoverEnd>>,
     <<StateWaitFailoverBegin, StateRunning>>,
     <<StateWaitFailoverBegin, StateWaitFailoverEnd>>,
     <<StateWaitFailoverBegin, StateOffline>>,
     <<StateWaitFailoverEnd, StateOffline>>,
     <<StateOffline, StateRunning>>, <<StateOffline, StateWaitFailoverBegin>>}

\* C8: every node is in one of the four states; a firing leaves the node in
\* its state or moves it to the To of one transition registered with that
\* From, along one of the nine edges of the table.
C8_RegisteredEdges ==
    /\ \A n \in Nodes : state[n] \in States
    /\ Fired =>
           /\ state[last.node] = last.to
           /\ \/ last.tr = NoTransition /\ last.to = last.from
              \/ /\ last.tr # NoTransition
                 /\ Cardinality({i \in 1..Len(Table) : Table[i].name = last.tr}) = 1
                 /\ Table[Registered(last.tr)].From = last.from
                 /\ Table[Registered(last.tr)].To = last.to
                 /\ <<last.from, last.to>> \in AllowedEdges

\* C8 witness: the edge OFFLINE -> WAIT_FAILOVER_BEGIN was taken.
C8_Witness ==
    /\ Fired /\ last.from = StateOffline /\ last.tr = "d2"
    /\ state[last.node] = StateWaitFailoverBegin

\* the firing that holds the lock of n ran the promote-replica handler
Promotes(n) == firing[n].busy /\ firing[n].apply = "MasterFailoverHandler"

\* a call takes the lock of n and its firing runs the promote-replica handler
BeginsPromotion(n) ==
    /\ ~firing[n].busy
    /\ firing'[n].busy
    /\ firing'[n].apply = "MasterFailoverHandler"

\* C9: when the promote-replica handler runs and no sibling can be promoted,
\* it starts no failover task and exactly one goroutine that advances the
\* same node with the failover end signal, and the node reaches OFFLINE; when
\* a sibling can be promoted it starts exactly one failover task and no such
\* goroutine.
C9_NoCandidateAbort ==
    /\ [](\A n \in Nodes :
              Promotes(n) =>
                  IF firing[n].err
                  THEN firing[n].signals = 1 /\ firing[n].tasks = 0
                  ELSE firing[n].signals = 0 /\ firing[n].tasks = 1)
    /\ [][\A n \in Nodes :
              BeginsPromotion(n) =>
                  /\ followup'[n] = followup[n]
                                    - (IF firing'[n].by = Goroutine THEN 1 ELSE 0)
                                    + (IF firing'[n].err THEN 1 ELSE 0)
                  /\ \A m \in Nodes \ {n} : followup'[m] = followup[m]]_vars
    /\ \A n \in Nodes :
           (Promotes(n) /\ firing[n].err) ~> (state[n] = StateOffline)

\* C9 witness: a RUNNING node's firing ran the handler without a sibling to
\* promote and the goroutine with the end signal is pending.
C9_Witness ==
    \E n \in Nodes :
        /\ Promotes(n) /\ firing[n].err /\ firing[n].by = Caller
        /\ state[n] = StateRunning
        /\ firing[n].to = StateWaitFailoverEnd
        /\ followup[n] = 1

\* C10: the goroutine started by the promote-replica handler does not run
\* inside the firing that started it: no firing waits for the lock it holds,
\* every firing that holds a lock can move its node and release the lock,
\* and while the firing that started a goroutine holds the lock that
\* goroutine is still pending.
C10_NoSelfDeadlock ==
    \A n \in Nodes :
        /\ ~firing[n].blocked
        /\ firing[n].busy => ENABLED Commit(n)
        /\ firing[n].busy => followup[n] >= firing[n].signals

\* C10 witness: the firing that started the goroutine has ended, the node is
\* in WAIT_FAILOVER_END with its lock free, the goroutine is still pending.
C10_Witness ==
    \E n \in Nodes :
        /\ ~firing[n].busy
        /\ state[n] = StateWaitFailoverEnd
        /\ followup[n] = 1

\* the last firing ran the ban-read handler
BansRead == Fired /\ last.apply = "SlaveFailoverHandler"

\* the requests of the last firing went to known nodes, no node twice, and
\* there is one reply for each
OneAtATime ==
    /\ DOMAIN last.replies = DOMAIN last.sent
    /\ \A k \in DOMAIN last.sent : last.sent[k] \in Nodes
    /\ \A j, k \in DOMAIN last.sent : last.sent[j] = last.sent[k] => j = k

\* no address of the last firing answered without error
AllFailed == \A k \in DOMAIN last.replies : ~last.replies[k]

\* C11: a RUNNING node advanced with (T, any, FAIL, SLAVE, NONE) whose
\* replica set has a sibling in the region and only healthy RUNNING siblings
\* there goes to WAIT_FAILOVER_END by a3 and runs the ban-read handler, and
\* nothing else, once; the handler's requests go to known addresses one at a
\* time, every request before the last was answered with an error, and when
\* every request was answered with an error every address got one.
C11_SlaveFailoverBansRead ==
    ( /\ Fired /\ last.from = StateRunning
      /\ last.input.r = T /\ last.input.h = FAIL
      /\ last.input.role = S /\ last.input.cmd = CMD_NONE
      /\ HasSibling(last.node) /\ SiblingsHealthy(last.node) )
    => /\ last.tr = "a3"
       /\ state[last.node] = StateWaitFailoverEnd
       /\ last.apply = "SlaveFailoverHandler"
       /\ last.signals = 0 /\ last.tasks = 0 /\ last.inline = 0
       /\ OneAtATime
       /\ Len(last.sent) >= 1
       /\ \A k \in 1..(Len(last.sent) - 1) : ~last.replies[k]
       /\ AllFailed => Len(last.sent) = Cardinality(Nodes)

\* C11 witness: a3 fired on (T, F, FAIL, SLAVE, NONE); the first address
\* answered with an error, the second without, and no third request exists.
C11_Witness ==
    /\ Fired /\ last.tr = "a3" /\ last.from = StateRunning
    /\ last.input = Input(T, F, FAIL, S, CMD_NONE)
    /\ state[last.node] = StateWaitFailoverEnd
    /\ last.replies = <<FALSE, TRUE>>

\* C12: when every ban-read request of a firing was answered with an error,
\* the firing is committed all the same: the node is in the To state of the
\* transition, WAIT_FAILOVER_END, nothing escaped the handler, and nothing
\* else was started.
C12_BanReadFailureCommits ==
    (BansRead /\ AllFailed) =>
        /\ last.tr \in {"a3", "b2"}
        /\ last.to = StateWaitFailoverEnd
        /\ state[last.node] = StateWaitFailoverEnd
        /\ state[last.node] # last.from
        /\ ~last.escaped
        /\ last.signals = 0 /\ last.tasks = 0 /\ last.inline = 0

\* C12 witness: a3 fired from RUNNING, every known address got a request
\* and answered with an error, and the node is in WAIT_FAILOVER_END.
C12_Witness ==
    /\ BansRead /\ AllFailed /\ last.tr = "a3"
    /\ Len(last.sent) = Cardinality(Nodes)
    /\ state[last.node] = StateWaitFailoverEnd

\* the last firing ran no handler: nothing started, no request sent
NoEffect ==
    /\ last.apply = "nil"
    /\ last.signals = 0 /\ last.tasks = 0 /\ last.inline = 0
    /\ last.sent = <<>>

\* C13: a node in WAIT_FAILOVER_END advanced with an input whose command is
\* the end signal goes to OFFLINE by c0 or c1 and runs no handler, whatever
\* the other input fields, the flag and the other nodes.
C13_EndSignalOffline ==
    (Fired /\ last.from = StateWaitFailoverEnd
           /\ last.input.cmd = CMD_FAILOVER_END_SIGNAL)
    => /\ last.tr \in {"c0", "c1"}
       /\ last.to = StateOffline
       /\ state[last.node] = StateOffline
       /\ NoEffect

\* C13 witness: the end signal moved a healthy master with reads and writes
\* enabled out of WAIT_FAILOVER_END while a sibling was not RUNNING.
C13_Witness ==
    /\ Fired /\ last.from = StateWaitFailoverEnd
    /\ last.input = Input(T, T, FINE, M, CMD_FAILOVER_END_SIGNAL)
    /\ state[last.node] = StateOffline
    /\ Siblings(last.node) # {} /\ ~SiblingsHealthy(last.node)

\* C14: a RUNNING node advanced with an input whose read and write are both
\* disabled goes to OFFLINE by a0 and runs no handler, whatever the health,
\* role and command of the input, the flag and the other nodes.
C14_BothDisabledOffline ==
    (Fired /\ last.from = StateRunning /\ last.input.r = F /\ last.input.w = F)
    => /\ last.tr = "a0"
       /\ last.enabled = {"a0"}
       /\ last.to = StateOffline
       /\ state[last.node] = StateOffline
       /\ NoEffect

\* C14 witness: a failed master with the begin signal, the flag on and a
\* healthy sibling went from RUNNING to OFFLINE on (F, F).
C14_Witness ==
    /\ Fired /\ last.from = StateRunning
    /\ last.input = Input(F, F, FAIL, M, CMD_FAILOVER_BEGIN_SIGNAL)
    /\ last.auto
    /\ HasSibling(last.node) /\ SiblingsHealthy(last.node)
    /\ state[last.node] = StateOffline

\* the resulting state and the handler of every firing of node n on the
\* input that the current state of the cluster allows
Outcomes(n, input) == {<<f.to, f.apply>> : f \in Firings(n, {input})}

Tied(names) ==
    {x \in names :
        \A y \in names : Table[Registered(y)].Priority <= Table[Registered(x)].Priority}

\* C16 as stated: in no firing do two distinct transitions match, pass
\* their constraints and share the highest priority.
C16_NoTie ==
    Fired => Cardinality(Tied(last.enabled)) <= 1

\* C16: two distinct transitions share the highest priority among the
\* enabled ones only as a1 with a2 or as d0 with d1, and they do so whenever
\* a RUNNING node gets (T, T, FAIL) with neither a3 nor a4 enabled and
\* whenever an OFFLINE node gets (T, T).
C16_TiesOnlyTwins ==
    Fired =>
        /\ \/ Cardinality(Tied(last.enabled)) <= 1
           \/ Tied(last.enabled) = {"a1", "a2"}
           \/ Tied(last.enabled) = {"d0", "d1"}
        /\ ( /\ last.from = StateRunning /\ last.input.h = FAIL
             /\ last.input.r = T /\ last.input.w = T
             /\ last.enabled \cap {"a3", "a4"} = {} )
           => Tied(last.enabled) = {"a1", "a2"}
        /\ (last.from = StateOffline /\ last.input.r = T /\ last.input.w = T)
           => Tied(last.enabled) = {"d0", "d1"}

\* C16 witness: a1 and a2 were both enabled at the highest priority for a
\* failed master with the flag off, and a1, the first registered, fired.
C16_Witness ==
    /\ Fired /\ last.input = ScenarioC /\ ~last.auto
    /\ Tied(last.enabled) = {"a1", "a2"}
    /\ last.tr = "a1"

LeavesWaitFailoverEnd(input) ==
    \/ input.cmd = CMD_FAILOVER_END_SIGNAL
    \/ input.r = F /\ input.w = F /\ input.h = FAIL /\ input.role = S

\* C18: a node in WAIT_FAILOVER_END changes state only to OFFLINE, only by
\* its own firing, and only on the end signal or, for a slave, on
\* (F, F, FAIL, SLAVE, *); every other firing of the node, a healthy input
\* or one with read or write enabled included, leaves it in
\* WAIT_FAILOVER_END.
C18_WaitFailoverEndExit ==
    [][\A n \in Nodes :
        state[n] = StateWaitFailoverEnd =>
            /\ state'[n] \in {StateWaitFailoverEnd, StateOffline}
            /\ state'[n] = StateOffline =>
                   /\ last'.node = n
                   /\ LeavesWaitFailoverEnd(last'.input)
                   /\ last'.input.role = M => last'.input.cmd = CMD_FAILOVER_END_SIGNAL
            /\ (last'.node = n /\ last.node # n /\ ~LeavesWaitFailoverEnd(last'.input)) =>
                   /\ state'[n] = StateWaitFailoverEnd
                   /\ last'.tr = NoTransition]_vars

\* C18 witness: a master in WAIT_FAILOVER_END was advanced with a healthy
\* input, reads and writes enabled, the begin signal, and stayed.
C18_Witness ==
    /\ Fired /\ last.from = StateWaitFailoverEnd
    /\ last.input = Input(T, T, FINE, M, CMD_FAILOVER_BEGIN_SIGNAL)
    /\ last.tr = NoTransition
    /\ state[last.node] = StateWaitFailoverEnd

\* C19: a RUNNING node advanced with a healthy input and read or write
\* enabled stays in RUNNING, no transition enabled and no handler run,
\* whatever the role and command of the input, the flag and the other nodes.
C19_HealthyStaysRunning ==
    ( /\ Fired /\ last.from = StateRunning /\ last.input.h = FINE
      /\ (last.input.r = T \/ last.input.w = T) )
    => /\ last.enabled = {}
       /\ last.tr = NoTransition
       /\ state[last.node] = StateRunning
       /\ NoEffect

\* C19 witness: a healthy master with only reads enabled got the begin
\* signal with the flag on and a healthy sibling, and stayed in RUNNING.
C19_Witness ==
    /\ Fired /\ last.from = StateRunning
    /\ last.input = Input(T, F, FINE, M, CMD_FAILOVER_BEGIN_SIGNAL)
    /\ last.auto
    /\ HasSibling(last.node) /\ SiblingsHealthy(last.node)
    /\ state[last.node] = StateRunning

\* C20: every enabled transition of the highest priority has the To and the
\* handler of the one that fired, so whichever of them the engine picks the
\* node ends in the same state after the same handler.
C20_TieBreakIrrelevant ==
    (Fired /\ last.tr # NoTransition) =>
        /\ last.tr \in Tied(last.enabled)
        /\ \A x \in Tied(last.enabled) :
               /\ Table[Registered(x)].To = last.to
               /\ Table[Registered(x)].Apply = last.apply
               /\ Table[Registered(x)].To = state[last.node]

\* C20 witness: d0 and d1 were both enabled at the highest priority and the
\* OFFLINE node went to RUNNING.
C20_Witness ==
    /\ Fired /\ last.from = StateOffline
    /\ Tied(last.enabled) = {"d0", "d1"}
    /\ last.tr = "d0"
    /\ state[last.node] = StateRunning

====
